---- MODULE Spec2Model ----
(***************************************************************************)
(* The in-memory graph simulator of src/src/facebook/mock_facebook.py      *)
(* (Graph, GraphNode, the connection classes), the TestUser helper of      *)
(* src/src/facebook/test_user.py and the token codec of                    *)
(* src/src/facebook/auth.py (signed requests and cookies).                 *)
(*                                                                         *)
(* Python strings are sequences of atoms (an atom is a run of characters   *)
(* that is never split further, "/" is an atom of its own), so that        *)
(* split, join and %-formatting are computed. Python values whose type     *)
(* matters (user ids, access tokens, payload values) carry their type.     *)
(***************************************************************************)
EXTENDS Integers, Sequences, FiniteSets, TLC

VARIABLES
    public_data,      \* Graph._public_data: id -> node
    user_tokens,      \* Graph._user_tokens: user id -> token
    token_users,      \* Graph._token_users: token -> user id
    installed_users,  \* Graph.installed_users
    test_users,       \* the TestUser objects the callers hold (their user_data)
    result,           \* the last call: its name, arguments and outcome
    callers,          \* the threads that call the Graph at the same time: the
                      \* call each one is in, its position and its locals
    conn_owner,       \* the caller that created the connection object now
                      \* stored as the user's friends connection, 0 if none did
    orphans           \* the entries of the connection objects that were
                      \* replaced in the node, by the caller that created them

vars == <<public_data, user_tokens, token_users, installed_users, test_users, result,
          callers, conn_owner, orphans>>
gvars == <<public_data, user_tokens, token_users, installed_users>>

----------------------------------------------------------------------------
(* Bounds of the model *)

MaxProvision == 2   \* provisioning writes in one run
MaxEntries == 2     \* entries over all connections in one run
MaxTime == 1        \* int(time.time()) is drawn from 0..MaxTime

----------------------------------------------------------------------------
(* Python values *)

NoneV == [t |-> "NoneType"]
IntV(n) == [t |-> "int", n |-> n]
StrV(s) == [t |-> "str", s |-> s]
BoolV(b) == [t |-> "bool", b |-> b]

EmptyDict == [k \in {} |-> NoneV]

Digits == <<"0", "1", "2", "3", "4", "5", "6", "7", "8", "9",
            "a", "b", "c", "d", "e", "f">>

RECURSIVE Dec(_)
Dec(n) == IF n < 10 THEN <<Digits[n + 1]>>
          ELSE Dec(n \div 10) \o <<Digits[(n % 10) + 1]>>

RECURSIVE Hex(_)
Hex(n) == IF n < 16 THEN <<Digits[n + 1]>>
          ELSE Hex(n \div 16) \o <<Digits[(n % 16) + 1]>>

\* str(v)
PyStr(v) ==
    CASE v.t = "str" -> v.s
      [] v.t = "int" -> Dec(v.n)
      [] v.t = "bool" -> IF v.b THEN <<"True">> ELSE <<"False">>
      [] OTHER -> <<"None">>

\* s.split(sep)
RECURSIVE Split(_, _)
Split(s, sep) ==
    IF \A i \in 1..Len(s) : s[i] # sep THEN <<s>>
    ELSE LET i == CHOOSE k \in 1..Len(s) :
                      s[k] = sep /\ \A j \in 1..(k - 1) : s[j] # sep
         IN <<SubSeq(s, 1, i - 1)>> \o Split(SubSeq(s, i + 1, Len(s)), sep)

\* sep.join(parts)
RECURSIVE Join(_, _)
Join(parts, sep) ==
    IF Len(parts) = 0 THEN <<>>
    ELSE IF Len(parts) = 1 THEN parts[1]
    ELSE parts[1] \o <<sep>> \o Join(Tail(parts), sep)

\* hashlib.md5(s).hexdigest(): a collision-free digest of s
Md5Hex(s) == <<"md5:">> \o s

\* dict.get(key, default)
DictGet(d, key, default) == IF key \in DOMAIN d THEN d[key] ELSE default

----------------------------------------------------------------------------
(* Outcomes of a call: the graph it leaves, and a return value or an
   exception (exc = "" when the call returns). *)

Ok(g, ret) == [g |-> g, exc |-> "", msg |-> <<>>, ret |-> ret]
Raise(g, exc, msg) == [g |-> g, exc |-> exc, msg |-> msg, ret |-> NoneV]

\* The exception classes of the simulator: Error and its subclasses
SimulatorErrors == {"Error", "ResourceNotFoundError"}

----------------------------------------------------------------------------
(* Nodes and connections *)

app_name == <<"myapp">>
app_secret == <<"s3cr3t">>

\* GraphNode.__init__
GraphNode(cls, fields) == [cls |-> cls, fields |-> fields, conns |-> EmptyDict]

\* GraphConnection.__init__
GraphConnection(cls) == [cls |-> cls, items |-> <<>>]

\* a connection table shared by every node class
ConnectionClasses_shared(cls) ==
    (<<"friends">> :> "FriendsConnection") @@ (<<"accounts">> :> "TestUserConnection")

\* UserGraphNode.connections, ApplicationGraphNode.connections
ConnectionClasses(cls) ==
    IF cls = "UserGraphNode" THEN (<<"friends">> :> "FriendsConnection")
    ELSE IF cls = "ApplicationGraphNode" THEN (<<"accounts">> :> "TestUserConnection")
    ELSE EmptyDict

\* GraphNode.connection: the name of the connection on node obj_id
connection(g, obj_id, name) ==
    LET node == g.public_data[obj_id] IN
    IF name \in DOMAIN node.conns THEN Ok(g, name)
    ELSE IF name \in DOMAIN ConnectionClasses(node.cls)
    THEN Ok([g EXCEPT !.public_data[obj_id].conns =
                 (name :> GraphConnection(ConnectionClasses(node.cls)[name])) @@ @],
            name)
    ELSE Raise(g, "ResourceNotFoundError", name)

\* GraphConnection.get
GraphConnection_get(g, obj_id, name, access_token) ==
    g.public_data[obj_id].conns[name].items

\* GraphConnection.put
GraphConnection_put(g, obj_id, name, access_token, id, data) ==
    Ok([g EXCEPT !.public_data[obj_id].conns[name].items =
            Append(@, [id |-> StrV(id), data |-> data])],
       NoneV)

\* the entries of connection name of node k, none when it does not exist
FriendsOf_items(g, k, name) ==
    IF name \in DOMAIN g.public_data[k].conns
    THEN g.public_data[k].conns[name].items
    ELSE <<>>

\* FriendsConnection.put that keeps the payload fields in the entry
FriendsConnection_put_with_payload(g, obj_id, name, access_token, id, data) ==
    Ok([g EXCEPT !.public_data[obj_id].conns[name].items =
            Append(@, [id |-> StrV(PyStr(StrV(id)))] @@ data)],
       NoneV)

\* FriendsConnection.put that also records the friendship on the other user
FriendsConnection_put_symmetric(g, obj_id, name, access_token, id, data) ==
    LET g1 == [g EXCEPT !.public_data[obj_id].conns[name].items =
                   Append(@, [id |-> StrV(PyStr(StrV(id)))])]
        other == StrV(id)
    IN IF other \in DOMAIN g1.public_data /\ other # obj_id
       THEN Ok([g1 EXCEPT !.public_data[other].conns =
                    (name :> [cls |-> "FriendsConnection",
                              items |-> Append(FriendsOf_items(g1, other, name),
                                               [id |-> obj_id])]) @@ @],
               NoneV)
       ELSE Ok(g1, NoneV)

\* FriendsConnection.put
FriendsConnection_put(g, obj_id, name, access_token, id, data) ==
    Ok([g EXCEPT !.public_data[obj_id].conns[name].items =
            Append(@, [id |-> StrV(PyStr(StrV(id)))])],
       NoneV)

----------------------------------------------------------------------------
(* Graph *)

\* Graph.set(id, node), the form that stores a node
Graph_set(g, id, node) == [g EXCEPT !.public_data = (id :> node) @@ @]

\* Graph.install_user
install_user(g, user_id, permissions) ==
    [g EXCEPT !.installed_users = @ \cup {user_id}]

\* Graph.uninstall_user that also drops the token of the user
uninstall_user_drops_token(g, user_id) ==
    IF user_id \in g.installed_users
    THEN Ok([g EXCEPT !.installed_users = @ \ {user_id},
                      !.user_tokens = [u \in DOMAIN @ \ {user_id} |-> @[u]],
                      !.token_users = [t \in {x \in DOMAIN @ : @[x] # user_id} |-> @[t]]],
            NoneV)
    ELSE Raise(g, "KeyError", PyStr(user_id))

\* Graph.uninstall_user: set.remove raises KeyError for a missing element
uninstall_user(g, user_id) ==
    IF user_id \in g.installed_users
    THEN Ok([g EXCEPT !.installed_users = @ \ {user_id}], NoneV)
    ELSE Raise(g, "KeyError", PyStr(user_id))

\* Graph.build_access_token whose early return reads the wrong map
build_access_token_wrong_map(g, user_id) ==
    IF user_id \in DOMAIN g.user_tokens
    THEN IF user_id \in DOMAIN g.token_users
         THEN Ok(g, g.token_users[user_id])
         ELSE Raise(g, "KeyError", PyStr(user_id))
    ELSE LET token == StrV(Md5Hex(PyStr(user_id)))
         IN Ok([g EXCEPT !.user_tokens = (user_id :> token) @@ @,
                         !.token_users = (token :> user_id) @@ @],
               token)

\* Graph.build_access_token
build_access_token(g, user_id) ==
    IF user_id \in DOMAIN g.user_tokens THEN Ok(g, g.user_tokens[user_id])
    ELSE LET token == StrV(Md5Hex(PyStr(user_id)))
         IN Ok([g EXCEPT !.user_tokens = (user_id :> token) @@ @,
                         !.token_users = (token :> user_id) @@ @],
               token)

\* the 'me' lookup without the test for a missing access token
resolve_me_no_none_test(g, access_token) ==
    IF access_token \notin DOMAIN g.token_users
    THEN Raise(g, "KeyError", PyStr(access_token))
    ELSE Ok(g, g.token_users[access_token])

\* Graph.fetch, the special 'me' object: the user id of the access token
resolve_me(g, access_token) ==
    IF access_token = NoneV
    THEN Raise(g, "Error", <<"access token required">>)
    ELSE IF access_token \notin DOMAIN g.token_users
    THEN Raise(g, "KeyError", PyStr(access_token))
    ELSE Ok(g, g.token_users[access_token])

\* Graph.fetch that looks the object up without testing that it is stored
fetch_unchecked_lookup(g, access_token, id) ==
    LET name_components == Split(id, "/")
        connection_name == Join(Tail(name_components), "/")
        me == IF name_components[1] = <<"me">>
              THEN resolve_me(g, access_token)
              ELSE Ok(g, StrV(name_components[1]))
    IN  IF me.exc # "" THEN me
        ELSE LET obj_id == me.ret IN
             IF obj_id \notin DOMAIN g.public_data
             THEN Raise(g, "KeyError", PyStr(obj_id))
             ELSE IF connection_name # <<>>
             THEN LET c == connection(g, obj_id, connection_name) IN
                  IF c.exc # "" THEN c
                  ELSE Ok(c.g, [data |-> GraphConnection_get(c.g, obj_id, c.ret,
                                                             access_token)])
             ELSE Ok(g, [ref |-> obj_id, fields |-> g.public_data[obj_id].fields])

\* Graph.fetch: a node is returned as its key and its fields, a connection
\* as {'data': entries}
fetch(g, access_token, id) ==
    LET name_components == Split(id, "/")
        connection_name == Join(Tail(name_components), "/")
        me == IF name_components[1] = <<"me">>
              THEN resolve_me(g, access_token)
              ELSE Ok(g, StrV(name_components[1]))
    IN  IF me.exc # "" THEN me
        ELSE LET obj_id == me.ret IN
             IF obj_id \notin DOMAIN g.public_data
             THEN Raise(g, "ResourceNotFoundError", id)
             ELSE IF connection_name # <<>>
             THEN LET c == connection(g, obj_id, connection_name) IN
                  IF c.exc # "" THEN c
                  ELSE Ok(c.g, [data |-> GraphConnection_get(c.g, obj_id, c.ret,
                                                             access_token)])
             ELSE Ok(g, [ref |-> obj_id, fields |-> g.public_data[obj_id].fields])

\* create_id: "testuser%x" % random.randint(0, 100000), n the number drawn
create_id(n) == <<"testuser">> \o Hex(n)

\* the entries of names_list and surnames_list the model draws from
FirstNames == {"Mary"}
Surnames == {"Smith"}

\* create_name, with the random choices as inputs
create_name(first, last) == Join(<<(<<first>>), (<<last>>)>>, " ")

\* str.lower() and str.lower()[0] on the names drawn
Lower(w) == CASE w = "Mary" -> "mary" [] w = "Smith" -> "smith" [] OTHER -> w
LowerInitial(w) == CASE w = "Mary" -> "m" [] w = "Smith" -> "s" [] OTHER -> w

\* create_email
create_email(name) ==
    LET parts == Split(name, " ")
        first == parts[1][1]
        last == parts[2][1]
    IN <<LowerInitial(first), Lower(last), "@waitingroomz.com">>

\* the numbers random.randint(0, 100000) returns in the model
RandomNumbers == {0, 26}

\* what random draws during one provisioning write
RandomDraws == [n : RandomNumbers, first : FirstNames, last : Surnames]

\* TestUserConnection.put that never stores the user it creates
TestUserConnection_put_no_set(g, access_token, id, data, rnd) ==
    IF id = <<"test-users">>
    THEN LET name == create_name(rnd.first, rnd.last)
             uid == StrV(create_id(rnd.n))
             g2 == IF DictGet(data, "installed", BoolV(FALSE)) = BoolV(TRUE)
                   THEN install_user(g, uid, DictGet(data, "permissions", NoneV))
                   ELSE g
             tok == build_access_token(g2, uid)
         IN Ok(tok.g, [name |-> StrV(name), id |-> uid, access_token |-> tok.ret])
    ELSE Raise(g, "ResourceNotFoundError", id)

\* TestUserConnection.put that installs every user it creates
TestUserConnection_put_installs(g, access_token, id, data, rnd) ==
    IF id = <<"test-users">>
    THEN LET name == create_name(rnd.first, rnd.last)
             uid == StrV(create_id(rnd.n))
             user == GraphNode("UserGraphNode",
                               [name |-> StrV(name), id |-> uid,
                                email |-> StrV(create_email(name))])
             g1 == Graph_set(g, uid, user)
             g2 == install_user(g1, uid, DictGet(data, "permissions", NoneV))
             tok == build_access_token(g2, uid)
         IN Ok(tok.g, [name |-> StrV(name), id |-> uid, access_token |-> tok.ret])
    ELSE Raise(g, "ResourceNotFoundError", id)

\* TestUserConnection.put that creates a user whatever the sub-path
TestUserConnection_put_any_path(g, access_token, id, data, rnd) ==
    LET name == create_name(rnd.first, rnd.last)
        uid == StrV(create_id(rnd.n))
        user == GraphNode("UserGraphNode",
                          [name |-> StrV(name), id |-> uid,
                           email |-> StrV(create_email(name))])
        g1 == Graph_set(g, uid, user)
        g2 == IF DictGet(data, "installed", BoolV(FALSE)) = BoolV(TRUE)
              THEN install_user(g1, uid, DictGet(data, "permissions", NoneV))
              ELSE g1
        tok == build_access_token(g2, uid)
    IN Ok(tok.g, [name |-> StrV(name), id |-> uid, access_token |-> tok.ret])

\* TestUserConnection.put
TestUserConnection_put(g, access_token, id, data, rnd) ==
    IF id = <<"test-users">>
    THEN LET name == create_name(rnd.first, rnd.last)
             uid == StrV(create_id(rnd.n))
             user == GraphNode("UserGraphNode",
                               [name |-> StrV(name), id |-> uid,
                                email |-> StrV(create_email(name))])
             g1 == Graph_set(g, uid, user)
             g2 == IF DictGet(data, "installed", BoolV(FALSE)) = BoolV(TRUE)
                   THEN install_user(g1, uid, DictGet(data, "permissions", NoneV))
                   ELSE g1
             tok == build_access_token(g2, uid)
         IN Ok(tok.g, [name |-> StrV(name), id |-> uid, access_token |-> tok.ret])
    ELSE Raise(g, "ResourceNotFoundError", id)

\* the put of the connection's class
connection_put(g, obj_id, name, access_token, id, data, rnd) ==
    LET cls == g.public_data[obj_id].conns[name].cls IN
    CASE cls = "FriendsConnection" ->
             FriendsConnection_put(g, obj_id, name, access_token, id, data)
      [] cls = "TestUserConnection" ->
             TestUserConnection_put(g, access_token, id, data, rnd)
      [] OTHER -> GraphConnection_put(g, obj_id, name, access_token, id, data)

\* Graph.put
put(g, access_token, parent_id, connection_name, data, rnd) ==
    LET obj == fetch(g, access_token, parent_id) IN
    IF obj.exc # "" THEN obj
    ELSE IF "ref" \notin DOMAIN obj.ret
    THEN Raise(obj.g, "AttributeError", <<"connection">>)
    ELSE LET connection_name_components == Split(connection_name, "/")
             c == connection(obj.g, obj.ret.ref, connection_name_components[1])
         IN IF c.exc # "" THEN c
            ELSE connection_put(c.g, obj.ret.ref, c.ret, access_token,
                                Join(Tail(connection_name_components), "/"),
                                data, rnd)

----------------------------------------------------------------------------
(* Signed requests (auth.py) *)

Dot == [c |-> "."]

\* _encode_json
EncodeJson(data) == [json |-> data]

\* base64.urlsafe_b64encode(x).rstrip("=")
B64Encode(x) == [b64 |-> x]

\* hmac.new(key, msg=msg, digestmod=hashlib.sha256).digest()
HmacSha256(key, msg) == [hmac |-> <<key, msg>>]

\* build_signed_request, now the value of int(time.time()); the payload and
\* the encoded signature are strings of one atom each
build_signed_request(user_id, oauth_token, secret, now) ==
    LET base == [algorithm |-> StrV(<<"HMAC-SHA256">>),
                 issued_at |-> IntV(now),
                 user |-> [locale |-> StrV(<<"en_US">>), country |-> StrV(<<"us">>)]]
        data == IF oauth_token # NoneV
                THEN [oauth_token |-> oauth_token, user_id |-> user_id] @@ base
                ELSE base
        payload == <<B64Encode(EncodeJson(data))>>
        sig == HmacSha256(secret, payload)
        encoded_sig == <<B64Encode(sig)>>
    IN Join(<<encoded_sig, payload>>, Dot)

\* the outcome of a call that touches no graph
Returns(ret) == [exc |-> "", msg |-> <<>>, ret |-> ret]
Raises(exc, msg) == [exc |-> exc, msg |-> msg, ret |-> NoneV]

\* a unicode string, what json.loads returns for a JSON string
UniV(s) == [t |-> "unicode", s |-> s]

\* a == b on Python values: a str and a unicode of the same text are equal
PyEq(a, b) ==
    IF a.t \in {"str", "unicode"} /\ b.t \in {"str", "unicode"} THEN a.s = b.s
    ELSE a = b

\* str.upper() on the words the model uses
UpperAtom(w) ==
    CASE w = "hmac-sha256" -> "HMAC-SHA256"
      [] w = "Hmac-Sha256" -> "HMAC-SHA256"
      [] w = "hmac-sha1" -> "HMAC-SHA1"
      [] OTHER -> w
Upper(s) == [i \in DOMAIN s |-> UpperAtom(s[i])]

\* s.split(sep, maxsplit)
RECURSIVE SplitMax(_, _, _)
SplitMax(s, sep, maxsplit) ==
    IF maxsplit = 0 \/ \A i \in 1..Len(s) : s[i] # sep THEN <<s>>
    ELSE LET i == CHOOSE k \in 1..Len(s) :
                      s[k] = sep /\ \A j \in 1..(k - 1) : s[j] # sep
         IN <<SubSeq(s, 1, i - 1)>>
                \o SplitMax(SubSeq(s, i + 1, Len(s)), sep, maxsplit - 1)

\* the value json.loads builds from what json.dumps wrote for v: a dict
\* member by member, a str as unicode, a number or null as itself
RECURSIVE Loads(_)
Loads(v) ==
    IF "t" \in DOMAIN v THEN (IF v.t = "str" THEN UniV(v.s) ELSE v)
    ELSE [k \in DOMAIN v |-> Loads(v[k])]

\* _decode_json: bytes that are no JSON text raise ValueError
DecodeJson(bytes) ==
    IF "json" \in DOMAIN bytes THEN Returns(Loads(bytes.json))
    ELSE Raises("ValueError", <<"No JSON object could be decoded">>)

\* base64.urlsafe_b64decode(part + "=" * padding): the bytes the text encodes
B64Decode(part) == IF part = <<>> THEN [raw |-> ""] ELSE part[1].b64

\* parse_signed_request that returns the payload without comparing signatures
parse_signed_request_unverified(signed_request, secret) ==
    LET l == SplitMax(signed_request, Dot, 2) IN
    IF Len(l) < 2 THEN Raises("ValueError", <<"'signed_request' malformed">>)
    ELSE LET decoded == DecodeJson(B64Decode(l[2])) IN
         IF decoded.exc # "" THEN decoded
         ELSE LET data == decoded.ret IN
              IF "t" \in DOMAIN data THEN Raises("AttributeError", <<"get">>)
              ELSE IF DictGet(data, "algorithm", NoneV).t \notin {"str", "unicode"}
              THEN Raises("AttributeError", <<"upper">>)
              ELSE IF Upper(data.algorithm.s) # <<"HMAC-SHA256">>
              THEN Raises("Error", <<"'signed_request' is using an unknown algorithm">>)
              ELSE Returns(data)

\* parse_signed_request
parse_signed_request(signed_request, secret) ==
    LET l == SplitMax(signed_request, Dot, 2) IN
    IF Len(l) < 2 THEN Raises("ValueError", <<"'signed_request' malformed">>)
    ELSE LET encoded_sig == l[1]
             payload == l[2]
             sig == B64Decode(encoded_sig)
             decoded == DecodeJson(B64Decode(payload))
         IN
         IF decoded.exc # "" THEN decoded
         ELSE LET data == decoded.ret IN
              IF "t" \in DOMAIN data THEN Raises("AttributeError", <<"get">>)
              ELSE IF DictGet(data, "algorithm", NoneV).t \notin {"str", "unicode"}
              THEN Raises("AttributeError", <<"upper">>)
              ELSE IF Upper(data.algorithm.s) # <<"HMAC-SHA256">>
              THEN Raises("Error", <<"'signed_request' is using an unknown algorithm">>)
              ELSE IF sig # HmacSha256(secret, payload)
              THEN Raises("Error", <<"'signed_request' signature mismatch">>)
              ELSE Returns(data)

----------------------------------------------------------------------------
(* Cookies (auth.py). A cookie is a string of atoms: "&", "=" and '"' are
   atoms of their own, a decimal number is one atom for each digit. *)

\* a dict as a Python value
DictV(d) == [t |-> "dict", d |-> d]

\* s.strip('"')
RECURSIVE StripQuotes(_)
StripQuotes(s) ==
    IF s # <<>> /\ s[1] = "\"" THEN StripQuotes(Tail(s))
    ELSE IF s # <<>> /\ s[Len(s)] = "\"" THEN StripQuotes(SubSeq(s, 1, Len(s) - 1))
    ELSE s

\* dict((k, v[-1]) for k, v in cgi.parse_qs(qs).items()), pairs the fields of
\* qs between "&": a field without "=" or with a blank value is dropped, the
\* last value of a name is the one kept
RECURSIVE LastValues(_)
LastValues(pairs) ==
    IF pairs = <<>> THEN EmptyDict
    ELSE LET nv == SplitMax(Head(pairs), "=", 1)
             rest == LastValues(Tail(pairs))
         IN IF Len(nv) # 2 \/ nv[2] = <<>> THEN rest
            ELSE rest @@ (nv[1] :> nv[2])
parse_qs(qs) == IF qs = <<>> THEN EmptyDict ELSE LastValues(Split(qs, "&"))

\* the field names of a cookie, in the order sorted() puts them
SortedNames == << <<"access_token">>, <<"expires">>, <<"sig">>, <<"uid">> >>

\* sorted(args.keys())
Sorted(keys) == SelectSeq(SortedNames, LAMBDA k : k \in keys)

\* "".join(k + "=" + args[k] for k in names if k != "sig")
RECURSIVE SignedText(_, _)
SignedText(args, names) ==
    IF names = <<>> THEN <<>>
    ELSE (IF Head(names) # <<"sig">>
          THEN Head(names) \o <<"=">> \o args[Head(names)]
          ELSE <<>>) \o SignedText(args, Tail(names))

\* int(s) for a str s: a run of decimal digits, ValueError otherwise
DecimalDigits == {Digits[i] : i \in 1..10}
RECURSIVE IntOf(_)
IntOf(s) ==
    LET d == CHOOSE n \in 0..9 : Digits[n + 1] = s[Len(s)]
    IN IF Len(s) = 1 THEN d ELSE 10 * IntOf(SubSeq(s, 1, Len(s) - 1)) + d
ParseInt(s) ==
    IF s # <<>> /\ \A i \in DOMAIN s : s[i] \in DecimalDigits
    THEN Returns(IntV(IntOf(s)))
    ELSE Raises("ValueError", <<"invalid literal for int()">> \o s)

\* get_user_from_cookie that takes every cookie as one that never expires
get_user_from_cookie_no_expiry(cookies, app_id, secret, now) ==
    LET cookie == DictGet(cookies, <<"fbs_">> \o app_id, <<>>) IN
    IF cookie = <<>> THEN Returns(NoneV)
    ELSE LET args == parse_qs(StripQuotes(cookie))
             payload == SignedText(args, Sorted(DOMAIN args))
             sig == Md5Hex(payload \o secret)
         IN IF <<"expires">> \notin DOMAIN args
            THEN Raises("KeyError", <<"expires">>)
            ELSE LET expires == ParseInt(args[<<"expires">>]) IN
                 IF expires.exc # "" THEN expires
                 ELSE IF <<"sig">> \in DOMAIN args /\ sig = args[<<"sig">>]
                 THEN Returns(DictV(args))
                 ELSE Returns(NoneV)

\* get_user_from_cookie, now the value of time.time()
get_user_from_cookie(cookies, app_id, secret, now) ==
    LET cookie == DictGet(cookies, <<"fbs_">> \o app_id, <<>>) IN
    IF cookie = <<>> THEN Returns(NoneV)
    ELSE LET args == parse_qs(StripQuotes(cookie))
             payload == SignedText(args, Sorted(DOMAIN args))
             sig == Md5Hex(payload \o secret)
         IN IF <<"expires">> \notin DOMAIN args
            THEN Raises("KeyError", <<"expires">>)
            ELSE LET expires == ParseInt(args[<<"expires">>]) IN
                 IF expires.exc # "" THEN expires
                 ELSE IF /\ <<"sig">> \in DOMAIN args /\ sig = args[<<"sig">>]
                         /\ (expires.ret.n = 0 \/ now < expires.ret.n)
                 THEN Returns(DictV(args))
                 ELSE Returns(NoneV)

----------------------------------------------------------------------------
(* Graph.build_signed_request *)

\* Graph.build_signed_request that never consults the installed set
Graph_build_signed_request_any_user(g, user_id, now) ==
    LET t == IF user_id \notin DOMAIN g.user_tokens
             THEN build_access_token(g, user_id)
             ELSE Ok(g, g.user_tokens[user_id])
    IN Ok(t.g, build_signed_request(user_id, t.ret, app_secret, now))

\* Graph.build_signed_request
Graph_build_signed_request(g, user_id, now) ==
    LET t == IF user_id \in g.installed_users
             THEN IF user_id \notin DOMAIN g.user_tokens
                  THEN build_access_token(g, user_id)
                  ELSE Ok(g, g.user_tokens[user_id])
             ELSE Ok(g, NoneV)
    IN Ok(t.g, build_signed_request(user_id, t.ret, app_secret, now))

----------------------------------------------------------------------------
(* TestUser (test_user.py), on the mock's GraphAPI *)

\* GraphAPI.put of the mock: Graph.put with the API object's access token
GraphAPI_put(g, access_token, parent_id, connection_name, data, rnd) ==
    put(g, access_token, parent_id, connection_name, data, rnd)

\* TestUser.create
TestUser_create(g, access_token, app_id, installed, rnd) ==
    LET args == [installed |-> installed]
    IN GraphAPI_put(g, access_token, app_id, <<"accounts", "/", "test-users">>,
                    args, rnd)

\* TestUser.graph_api: the access token the user's API object carries
TestUser_graph_api(g, user) ==
    IF user.access_token = StrV(<<>>) \/ user.access_token = NoneV
    THEN Raise(g, "Error",
               <<"User does not have current application installed, no access_token">>)
    ELSE Ok(g, user.access_token)

\* a friends write draws nothing at random
NoDraw == CHOOSE r \in RandomDraws : TRUE

\* TestUser.friend_user
TestUser_friend_user(g, self, other) ==
    LET a1 == TestUser_graph_api(g, other) IN
    IF a1.exc # "" THEN a1
    ELSE LET p1 == GraphAPI_put(g, a1.ret, other.id.s,
                                <<"friends", "/">> \o PyStr(self.id),
                                EmptyDict, NoDraw)
         IN IF p1.exc # "" THEN p1
            ELSE LET a2 == TestUser_graph_api(p1.g, self) IN
                 IF a2.exc # "" THEN a2
                 ELSE GraphAPI_put(p1.g, a2.ret, self.id.s,
                                   <<"friends", "/">> \o PyStr(other.id),
                                   EmptyDict, NoDraw)

----------------------------------------------------------------------------
(* The state machine: one action per call on the Graph or on a TestUser.
   A call leaves its outcome in result; the caller takes it (Done) before
   the next call is made. *)

\* the graph as one value
G == [public_data |-> public_data, user_tokens |-> user_tokens,
      token_users |-> token_users, installed_users |-> installed_users]

\* Graph.__init__
Graph_init ==
    [public_data |-> (StrV(app_name) :>
                         GraphNode("ApplicationGraphNode", [name |-> StrV(app_name)])),
     user_tokens |-> EmptyDict,
     token_users |-> EmptyDict,
     installed_users |-> {}]

Range(f) == {f[x] : x \in DOMAIN f}

\* the entries stored over all connections of g
RECURSIVE SumItems(_, _)
SumItems(g, refs) ==
    IF refs = {} THEN 0
    ELSE LET r == CHOOSE x \in refs : TRUE
         IN Len(g.public_data[r[1]].conns[r[2]].items) + SumItems(g, refs \ {r})
TotalEntries(g) ==
    SumItems(g, UNION {{<<k, c>> : c \in DOMAIN g.public_data[k].conns} :
                           k \in DOMAIN g.public_data})

\* the entries of the friends connection of node k, none when it was never used
FriendsOf(g, k) ==
    IF k \in DOMAIN g.public_data /\ <<"friends">> \in DOMAIN g.public_data[k].conns
    THEN g.public_data[k].conns[<<"friends">>].items
    ELSE <<>>

\* the arguments the calls are made with
TestUserIds == {create_id(n) : n \in RandomNumbers}
UserIdInputs == {IntV(1), StrV(<<"1">>)} \cup {u.id : u \in Range(test_users)}
TokenInputs == {NoneV, StrV(<<"bogus">>)} \cup DOMAIN token_users
ObjIdInputs == {<<"me">>, app_name, <<"nosuch">>}
                   \cup {k.s : k \in {x \in DOMAIN public_data : x.t = "str"}}
RelationInputs == {<<"friends">>, <<"accounts">>,
                   <<"accounts", "/", "test-users">>, <<"feed">>}
FetchIdInputs == ObjIdInputs \cup
                 {o \o <<"/">> \o r : o \in ObjIdInputs, r \in RelationInputs}
FriendWrites == {<<"friends">>} \cup {<<"friends", "/">> \o f : f \in TestUserIds}
OtherWrites == {<<"accounts">>, <<"accounts", "/", "other">>,
                <<"accounts", "/", "test-users", "/", "x">>, <<"feed", "/", "x">>}
DataInputs == {EmptyDict, [message |-> StrV(<<"hi">>)]}
InstalledInputs == {BoolV(TRUE), BoolV(FALSE)}

\* the arguments of parse_signed_request: the secrets, the payloads (what
\* build_signed_request writes, the same with another algorithm field, with
\* none, with another user), bytes that are no JSON text and a JSON number
Secrets == {app_secret, <<"0th3r">>}
SignedUserIds == {IntV(1), StrV(create_id(0))}
SignedTokens == {NoneV, StrV(<<>>), StrV(Md5Hex(<<"1">>))}
BuiltRequests ==
    {build_signed_request(u, t, s, now) :
         u \in SignedUserIds, t \in SignedTokens, s \in Secrets, now \in 0..MaxTime}
BuiltData == {r[3].b64.json : r \in BuiltRequests}
AlgorithmInputs == {StrV(<<"hmac-sha256">>), StrV(<<"Hmac-Sha256">>),
                    StrV(<<"HMAC-SHA1">>), IntV(256)}
PayloadData ==
    BuiltData
        \cup {[d EXCEPT !.algorithm = a] : d \in BuiltData, a \in AlgorithmInputs}
        \cup {[k \in DOMAIN d \ {"algorithm"} |-> d[k]] : d \in BuiltData}
        \cup {[d EXCEPT !.user_id = StrV(<<"admin">>)] :
                  d \in {x \in BuiltData : "user_id" \in DOMAIN x}}
PayloadInputs ==
    {<<B64Encode(EncodeJson(d))>> : d \in PayloadData}
        \cup {<<B64Encode([raw |-> "junk"])>>, <<B64Encode(EncodeJson(IntV(7)))>>}
SignatureInputs ==
    {<<B64Encode(HmacSha256(s, p))>> : s \in Secrets, p \in PayloadInputs}
SignedRequestInputs ==
    {Join(<<sig, p>>, Dot) : sig \in SignatureInputs, p \in PayloadInputs}
        \cup {r \o <<Dot>> : r \in BuiltRequests}
        \cup {r \o <<Dot, r[3]>> : r \in BuiltRequests}
        \cup {<<>>} \cup SignatureInputs

\* the arguments of get_user_from_cookie: the fields of the cookie, its sig
\* field (none, the digest under either secret, the digest with one
\* character changed), whether the value is quoted, and where it is stored
app_id == <<"123">>
CookieBase == (<<"uid">> :> <<"1", "0">>) @@ (<<"access_token">> :> <<"abc">>)
ExpiresInputs == {Dec(n) : n \in 0..(MaxTime + 1)} \cup {<<"soon">>}
FieldInputs == {CookieBase} \cup {(<<"expires">> :> e) @@ CookieBase : e \in ExpiresInputs}
CookieSig(fields, secret) == Md5Hex(SignedText(fields, Sorted(DOMAIN fields)) \o secret)
SigInputs(fields) ==
    {<<>>} \cup {CookieSig(fields, secret) : secret \in Secrets}
           \cup {<<"md5;">> \o Tail(CookieSig(fields, app_secret))}
CookieInputs ==
    UNION {{[fields |-> f, sig |-> g, quoted |-> q] : g \in SigInputs(f), q \in BOOLEAN} :
               f \in FieldInputs}
JarInputs == {"own", "other", "blank", "none"}

\* the order the fields are written in the cookie
WrittenNames == << <<"uid">>, <<"sig">>, <<"expires">>, <<"access_token">> >>

\* the text of the cookie c
RECURSIVE FieldsText(_, _)
FieldsText(args, names) ==
    IF names = <<>> THEN <<>>
    ELSE LET rest == FieldsText(args, Tail(names)) IN
         IF Head(names) \notin DOMAIN args THEN rest
         ELSE Head(names) \o <<"=">> \o args[Head(names)]
                  \o (IF rest = <<>> THEN <<>> ELSE <<"&">> \o rest)
AllFields(c) == IF c.sig = <<>> THEN c.fields ELSE (<<"sig">> :> c.sig) @@ c.fields
CookieText(c) ==
    LET text == FieldsText(AllFields(c), WrittenNames)
    IN IF c.quoted THEN <<"\"">> \o text \o <<"\"">> ELSE text

\* the cookies of a request
Cookies(c, jar) ==
    CASE jar = "own" -> (<<"fbs_">> \o app_id) :> CookieText(c)
      [] jar = "other" -> (<<"fbs_", "456">>) :> CookieText(c)
      [] jar = "blank" -> (<<"fbs_">> \o app_id) :> <<>>
      [] OTHER -> EmptyDict

Idle == [op |-> "idle", args |-> EmptyDict, exc |-> "", msg |-> <<>>, ret |-> NoneV]

\* the call op(args) ends with outcome o
Return(op, args, o) ==
    /\ public_data' = o.g.public_data
    /\ user_tokens' = o.g.user_tokens
    /\ token_users' = o.g.token_users
    /\ installed_users' = o.g.installed_users
    /\ result' = [op |-> op, args |-> args, exc |-> o.exc, msg |-> o.msg,
                  ret |-> o.ret]
    /\ UNCHANGED <<callers, conn_owner, orphans>>

\* the threads, and a thread that is in no call
Callers == {1, 2}
NoCall == [pc |-> "idle", op |-> "", arg |-> NoneV, ref |-> 0, ret |-> NoneV,
           expected |-> {}, written |-> <<>>]

Init ==
    /\ public_data = Graph_init.public_data
    /\ user_tokens = Graph_init.user_tokens
    /\ token_users = Graph_init.token_users
    /\ installed_users = Graph_init.installed_users
    /\ test_users = <<>>
    /\ result = Idle
    /\ callers = [th \in Callers |-> NoCall]
    /\ conn_owner = 0
    /\ orphans = EmptyDict

\* graph.fetch(access_token, id)
Fetch ==
    /\ result.op = "idle"
    /\ \E access_token \in TokenInputs, id \in FetchIdInputs :
        /\ Return("fetch", [access_token |-> access_token, id |-> id],
                  fetch(G, access_token, id))
        /\ UNCHANGED test_users

\* graph.put(access_token, parent_id, connection_name, data), the relation one
\* of connections
PutOn(connections) ==
    /\ result.op = "idle"
    /\ \E access_token \in TokenInputs, parent_id \in ObjIdInputs,
       connection_name \in connections, data \in DataInputs :
        LET o == put(G, access_token, parent_id, connection_name, data, NoDraw) IN
        /\ TotalEntries(o.g) <= MaxEntries
        /\ Return("put", [access_token |-> access_token, parent_id |-> parent_id,
                          connection_name |-> connection_name, data |-> data], o)
        /\ UNCHANGED test_users

Put == PutOn(FriendWrites \cup OtherWrites)

PutOther == PutOn(OtherWrites)

InstallUser ==
    /\ result.op = "idle"
    /\ \E user_id \in UserIdInputs :
        /\ Return("install_user", [user_id |-> user_id],
                  Ok(install_user(G, user_id, NoneV), NoneV))
        /\ UNCHANGED test_users

UninstallUser ==
    /\ result.op = "idle"
    /\ \E user_id \in UserIdInputs :
        /\ Return("uninstall_user", [user_id |-> user_id], uninstall_user(G, user_id))
        /\ UNCHANGED test_users

BuildAccessToken ==
    /\ result.op = "idle"
    /\ \E user_id \in UserIdInputs :
        /\ Return("build_access_token", [user_id |-> user_id],
                  build_access_token(G, user_id))
        /\ UNCHANGED test_users

BuildSignedRequest ==
    /\ result.op = "idle"
    /\ \E user_id \in UserIdInputs, now \in 0..MaxTime :
        /\ Return("build_signed_request", [user_id |-> user_id],
                  Graph_build_signed_request(G, user_id, now))
        /\ UNCHANGED test_users

\* TestUser.create(graph_api, app_name, installed): the test-user provisioning
\* write, its result kept as a TestUser
TestUserCreate ==
    /\ result.op = "idle"
    /\ \E installed \in InstalledInputs, rnd \in RandomDraws :
        LET o == TestUser_create(G, NoneV, app_name, installed, rnd) IN
        /\ Len(test_users) < MaxProvision
        /\ Return("create", [installed |-> installed, rnd |-> rnd], o)
        /\ test_users' = IF o.exc = "" THEN Append(test_users, o.ret) ELSE test_users

\* a.friend_user(b) for two of the TestUser objects
FriendUser ==
    /\ result.op = "idle"
    /\ \E i \in DOMAIN test_users, j \in DOMAIN test_users :
        LET self == test_users[i]
            other == test_users[j]
            o == TestUser_friend_user(G, self, other)
        IN
        /\ i # j
        /\ TotalEntries(o.g) <= MaxEntries
        /\ Return("friend_user",
                  [self |-> self, other |-> other,
                   fresh |-> FriendsOf(G, self.id) = <<>> /\ FriendsOf(G, other.id) = <<>>],
                  o)
        /\ UNCHANGED test_users

\* the call op(args), which touches no graph, ends with outcome o
ReturnPure(op, args, o) ==
    /\ result' = [op |-> op, args |-> args, exc |-> o.exc, msg |-> o.msg,
                  ret |-> o.ret]
    /\ UNCHANGED <<gvars, test_users, callers, conn_owner, orphans>>

\* parse_signed_request(signed_request, app_secret)
ParseSignedRequest ==
    /\ result.op = "idle"
    /\ \E signed_request \in SignedRequestInputs, secret \in Secrets :
        ReturnPure("parse_signed_request",
                   [signed_request |-> signed_request, app_secret |-> secret],
                   parse_signed_request(signed_request, secret))

\* get_user_from_cookie(cookies, app_id, app_secret) at time now
GetUserFromCookie ==
    /\ result.op = "idle"
    /\ \E c \in CookieInputs, jar \in JarInputs, secret \in Secrets, now \in 0..MaxTime :
        ReturnPure("get_user_from_cookie",
                   [cookie |-> c, jar |-> jar, app_secret |-> secret, now |-> now],
                   get_user_from_cookie(Cookies(c, jar), app_id, secret, now))

\* the caller takes the outcome of the call
Done ==
    /\ result.op # "idle"
    /\ result' = Idle
    /\ UNCHANGED <<gvars, test_users, callers, conn_owner, orphans>>

\* every call
Next ==
    \/ Fetch
    \/ Put
    \/ InstallUser
    \/ UninstallUser
    \/ BuildAccessToken
    \/ BuildSignedRequest
    \/ TestUserCreate
    \/ FriendUser
    \/ Done

Spec == Init /\ [][Next]_vars

\* the calls on identities, tokens and installation, with no friends write
NextIdentity ==
    \/ Fetch
    \/ PutOther
    \/ InstallUser
    \/ UninstallUser
    \/ BuildAccessToken
    \/ BuildSignedRequest
    \/ TestUserCreate
    \/ Done

SpecIdentity == Init /\ [][NextIdentity]_vars

\* the calls on the store and its connections, tokens issued by provisioning
NextFriends ==
    \/ Fetch
    \/ Put
    \/ TestUserCreate
    \/ FriendUser
    \/ Done

SpecFriends == Init /\ [][NextFriends]_vars

\* the calls of the token codec
NextAuth ==
    \/ ParseSignedRequest
    \/ GetUserFromCookie
    \/ Done

SpecAuth == Init /\ [][NextAuth]_vars

----------------------------------------------------------------------------
(* Two threads call one Graph without a lock. The interpreter switches
   threads between statements, and inside a statement wherever Python code
   runs (the __init__ of a connection class); a dict lookup, a dict store,
   list.append and list(conn) are single steps. The calls are a friends
   write and a friends read on the provisioned user, and
   build_access_token for a user who has no token. *)

\* the graph after one provisioning write
InitConcurrent ==
    \E rnd \in RandomDraws :
        LET o == TestUser_create(Graph_init, NoneV, app_name, BoolV(TRUE), rnd) IN
        /\ public_data = o.g.public_data
        /\ user_tokens = o.g.user_tokens
        /\ token_users = o.g.token_users
        /\ installed_users = o.g.installed_users
        /\ test_users = <<o.ret>>
        /\ result = Idle
        /\ callers = [th \in Callers |-> NoCall]
        /\ conn_owner = 0
        /\ orphans = EmptyDict

\* the user the threads read and write, and the user they build a token for
SharedUser == test_users[1].id
TokenlessUser == StrV(<<"1">>)

\* the entries every caller has appended so far
RECURSIVE AppendedBy(_)
AppendedBy(ths) ==
    IF ths = {} THEN {}
    ELSE LET th == CHOOSE x \in ths : TRUE
         IN Range(callers[th].written) \cup AppendedBy(ths \ {th})

\* the friends writes made or under way
RECURSIVE WritesOf(_)
WritesOf(ths) ==
    IF ths = {} THEN 0
    ELSE LET th == CHOOSE x \in ths : TRUE
         IN Len(callers[th].written)
                + (IF callers[th].op = "put" /\ callers[th].pc # "done" THEN 1 ELSE 0)
                + WritesOf(ths \ {th})

\* thread th moves on: its record becomes c, the graph becomes g
Step(th, c, g) ==
    /\ callers' = [callers EXCEPT ![th] = c]
    /\ public_data' = g.public_data
    /\ user_tokens' = g.user_tokens
    /\ token_users' = g.token_users
    /\ installed_users' = g.installed_users
    /\ UNCHANGED <<test_users, result>>

\* th calls graph.put(token, user, 'friends/<id>', {}), the id one no other
\* write names
StartWrite(th) ==
    /\ callers[th].pc \in {"idle", "done"}
    /\ WritesOf(Callers) < MaxEntries
    /\ Step(th, [callers[th] EXCEPT
                     !.pc = "lookup", !.op = "put",
                     !.arg = <<"f">> \o Dec(th) \o <<"n">>
                                 \o Dec(Len(callers[th].written) + 1),
                     !.ref = 0, !.ret = NoneV], G)
    /\ UNCHANGED <<conn_owner, orphans>>

\* th calls graph.fetch(token, '<user>/friends'); it expects the entries
\* appended before the call
StartRead(th) ==
    /\ callers[th].pc \in {"idle", "done"}
    /\ Step(th, [callers[th] EXCEPT
                     !.pc = "lookup", !.op = "fetch", !.arg = NoneV,
                     !.ref = 0, !.ret = NoneV,
                     !.expected = AppendedBy(Callers)], G)
    /\ UNCHANGED <<conn_owner, orphans>>

\* GraphNode.connection, try: return self._connections[name]
Lookup(th) ==
    /\ callers[th].pc = "lookup"
    /\ IF <<"friends">> \in DOMAIN public_data[SharedUser].conns
       THEN Step(th, [callers[th] EXCEPT !.pc = "use", !.ref = conn_owner], G)
       ELSE Step(th, [callers[th] EXCEPT !.pc = "store", !.ref = th], G)
    /\ UNCHANGED <<conn_owner, orphans>>

\* GraphNode.connection, conn = self._connections[name] = connection_cls(...):
\* the object th created replaces whatever is stored under the name
Store(th) ==
    /\ callers[th].pc = "store"
    /\ Step(th, [callers[th] EXCEPT !.pc = "use"],
            [G EXCEPT !.public_data[SharedUser].conns =
                 (<<"friends">> :>
                      GraphConnection(ConnectionClasses("UserGraphNode")[<<"friends">>]))
                 @@ [c \in DOMAIN @ \ {<<"friends">>} |-> @[c]]])
    /\ conn_owner' = th
    /\ orphans' = IF <<"friends">> \in DOMAIN public_data[SharedUser].conns
                  THEN (conn_owner :> FriendsOf(G, SharedUser)) @@ orphans
                  ELSE orphans

\* FriendsConnection.put or GraphConnection.get on the object th holds: the
\* stored connection when th's object is the one stored, otherwise an
\* object that was replaced in the node
Use(th) ==
    /\ callers[th].pc = "use"
    /\ LET stored == callers[th].ref = conn_owner
           entry == [id |-> StrV(PyStr(StrV(callers[th].arg)))]
       IN
       IF callers[th].op = "put"
       THEN /\ Step(th, [callers[th] EXCEPT !.pc = "done",
                                            !.written = Append(@, callers[th].arg)],
                    IF stored
                    THEN FriendsConnection_put(G, SharedUser, <<"friends">>, NoneV,
                                               callers[th].arg, EmptyDict).g
                    ELSE G)
            /\ orphans' = IF stored THEN orphans
                          ELSE [orphans EXCEPT ![callers[th].ref] = Append(@, entry)]
       ELSE /\ Step(th, [callers[th] EXCEPT
                             !.pc = "done",
                             !.ret = [data |-> IF stored
                                               THEN GraphConnection_get(G, SharedUser,
                                                                        <<"friends">>, NoneV)
                                               ELSE orphans[callers[th].ref]]], G)
            /\ UNCHANGED orphans
    /\ UNCHANGED conn_owner

\* th calls graph.build_access_token(user)
StartBuild(th) ==
    /\ callers[th].pc \in {"idle", "done"}
    /\ Step(th, [callers[th] EXCEPT !.pc = "test", !.op = "build_access_token",
                                    !.arg = TokenlessUser, !.ref = 0,
                                    !.ret = NoneV], G)
    /\ UNCHANGED <<conn_owner, orphans>>

\* build_access_token: if user_id in self._user_tokens: return ...
TestToken(th) ==
    /\ callers[th].pc = "test"
    /\ IF callers[th].arg \in DOMAIN user_tokens
       THEN Step(th, [callers[th] EXCEPT !.pc = "done",
                                         !.ret = user_tokens[callers[th].arg]], G)
       ELSE Step(th, [callers[th] EXCEPT !.pc = "store_user"], G)
    /\ UNCHANGED <<conn_owner, orphans>>

\* build_access_token: self._user_tokens[user_id] = token = md5(...)
StoreUserToken(th) ==
    /\ callers[th].pc = "store_user"
    /\ LET token == StrV(Md5Hex(PyStr(callers[th].arg))) IN
       Step(th, [callers[th] EXCEPT !.pc = "store_token", !.ret = token],
            [G EXCEPT !.user_tokens = (callers[th].arg :> token) @@ @])
    /\ UNCHANGED <<conn_owner, orphans>>

\* build_access_token: self._token_users[token] = user_id; return token
StoreTokenUser(th) ==
    /\ callers[th].pc = "store_token"
    /\ Step(th, [callers[th] EXCEPT !.pc = "done"],
            [G EXCEPT !.token_users = (callers[th].ret :> callers[th].arg) @@ @])
    /\ UNCHANGED <<conn_owner, orphans>>

\* the steps of the two threads, in any order
NextConcurrent ==
    \E th \in Callers :
        \/ StartWrite(th)
        \/ StartRead(th)
        \/ Lookup(th)
        \/ Store(th)
        \/ Use(th)
        \/ StartBuild(th)
        \/ TestToken(th)
        \/ StoreUserToken(th)
        \/ StoreTokenUser(th)

SpecConcurrent == InitConcurrent /\ [][NextConcurrent]_vars

----------------------------------------------------------------------------
(* Properties of the simulator *)

\* the path a fetch or a put resolves its object from
CallPath(r) == IF r.op = "fetch" THEN r.args.id ELSE r.args.parent_id

\* the call r is a fetch or a put whose object is 'me'
TargetsMe(r) ==
    /\ r.op \in {"fetch", "put"}
    /\ Len(CallPath(r)) >= 1
    /\ CallPath(r)[1] = "me"
    /\ (Len(CallPath(r)) = 1 \/ CallPath(r)[2] = "/")

\* the call r is a successful write to a friends connection
FriendsWritten(r) ==
    /\ r.op = "put"
    /\ r.exc = ""
    /\ r.args.connection_name[1] = "friends"

\* the payload a signed request carries
PayloadOf(signed_request) == signed_request[3].b64.json

\* what a read of the friends connection of the node with key k returns
FriendsRead(k) == fetch(G, NoneV, k.s \o <<"/", "friends">>)

\* C1: every call of build_access_token(u) returns, without raising, the
\* token recorded for u, that token never changes once issued (so every call
\* returns what the first call returned), the tokens handed out by
\* provisioning are the recorded ones, and a call for a user who has a token
\* leaves both token maps as they were.
C1_TokenIssuanceStable ==
    [][ /\ \A u \in DOMAIN user_tokens :
              u \in DOMAIN user_tokens' /\ user_tokens'[u] = user_tokens[u]
        /\ (result'.op = "build_access_token" =>
              /\ result'.exc = ""
              /\ result'.args.user_id \in DOMAIN user_tokens'
              /\ result'.ret = user_tokens'[result'.args.user_id]
              /\ (result'.args.user_id \in DOMAIN user_tokens =>
                      UNCHANGED <<user_tokens, token_users>>))
        /\ ((result'.op = "create" /\ result'.exc = "") =>
              /\ result'.ret.id \in DOMAIN user_tokens'
              /\ result'.ret.access_token = user_tokens'[result'.ret.id])
      ]_vars

\* C1 witness: build_access_token was called for a provisioned user, who had
\* a token already.
C1_Witness ==
    /\ result.op = "build_access_token"
    /\ result.exc = ""
    /\ \E i \in DOMAIN test_users : test_users[i].id = result.args.user_id

\* C2: the user-to-token map and the token-to-user map are inverses of each
\* other in every reachable state.
C2_TokenMapsInverse ==
    /\ \A u \in DOMAIN user_tokens :
           /\ user_tokens[u] \in DOMAIN token_users
           /\ token_users[user_tokens[u]] = u
    /\ \A t \in DOMAIN token_users :
           /\ token_users[t] \in DOMAIN user_tokens
           /\ user_tokens[token_users[t]] = t

\* C3: a provisioning write with installed=true returns name, id and
\* access_token, the object with that id is in the store, and a fetch of 'me'
\* with the returned token resolves to the object with that id.
C3_ProvisionedUserIsMe ==
    (result.op = "create" /\ result.args.installed = BoolV(TRUE)) =>
        /\ result.exc = ""
        /\ DOMAIN result.ret = {"name", "id", "access_token"}
        /\ result.ret.id \in DOMAIN public_data
        /\ LET me == fetch(G, result.ret.access_token, <<"me">>) IN
           /\ me.exc = ""
           /\ me.ret.ref = result.ret.id
           /\ me.ret.fields.id = result.ret.id
           /\ me.ret.fields.name = result.ret.name

\* C3 witness: a second provisioning write with installed=true, made after
\* tokens were issued to other users.
C3_Witness ==
    /\ result.op = "create"
    /\ result.args.installed = BoolV(TRUE)
    /\ result.exc = ""
    /\ Len(test_users) = 2
    /\ IntV(1) \in DOMAIN user_tokens

\* C4: the id a provisioning write stores the new user under is no key of
\* the store before the write.
C4_ProvisioningIdIsFresh ==
    [][ (result'.op = "create" /\ result'.exc = "") =>
            result'.ret.id \notin DOMAIN public_data ]_vars

\* C5: after a write to a friends connection with sub-path otherId and any
\* payload, a read of that connection succeeds and its last entry has the
\* single field id, equal to otherId.
C5_FriendsEntryIsIdOnly ==
    FriendsWritten(result) =>
        LET cn == result.args.connection_name
            otherId == SubSeq(cn, 3, Len(cn))
            read == fetch(G, result.args.access_token,
                          result.args.parent_id \o <<"/", "friends">>)
        IN /\ read.exc = ""
           /\ Len(read.ret.data) >= 1
           /\ DOMAIN read.ret.data[Len(read.ret.data)] = {"id"}
           /\ read.ret.data[Len(read.ret.data)].id = StrV(otherId)

\* C5 witness: a friends write that carried payload fields, through 'me'.
C5_Witness ==
    /\ FriendsWritten(result)
    /\ DOMAIN result.args.data # {}
    /\ result.args.parent_id = <<"me">>
    /\ Len(result.args.connection_name) > 2

\* C6: after a.friend_user(b) on two provisioned users whose friends
\* connections were empty, a's friends are exactly {id: b} and b's exactly
\* {id: a}.
C6_FriendUserOneEntryEach ==
    (result.op = "friend_user" /\ result.args.fresh) =>
        /\ result.exc = ""
        /\ FriendsRead(result.args.self.id).exc = ""
        /\ FriendsRead(result.args.self.id).ret.data = <<[id |-> result.args.other.id]>>
        /\ FriendsRead(result.args.other.id).exc = ""
        /\ FriendsRead(result.args.other.id).ret.data = <<[id |-> result.args.self.id]>>

\* C7: a friends connection holds at most one entry for each friend id.
C7_FriendsDeduplicated ==
    \A k \in DOMAIN public_data :
        LET items == FriendsOf(G, k) IN
        \A i \in DOMAIN items, j \in DOMAIN items :
            items[i].id = items[j].id => i = j

\* C8: a fetch or a put of 'me' with no access token raises Error("access
\* token required") and leaves the store, the token maps and the installed
\* set as they were.
C8_MeNeedsAccessToken ==
    [][ (TargetsMe(result') /\ result'.args.access_token = NoneV) =>
            /\ result'.exc = "Error"
            /\ result'.msg = <<"access token required">>
            /\ UNCHANGED gvars ]_vars

\* C8 witness: a put on 'me' with no access token, on a graph that holds a
\* provisioned user.
C8_Witness ==
    /\ result.op = "put"
    /\ TargetsMe(result)
    /\ result.args.access_token = NoneV
    /\ result.exc = "Error"
    /\ test_users # <<>>

\* C9: a fetch or a put of 'me' with an access token that no user holds
\* raises one of the simulator's own error classes.
C9_UnknownTokenTypedError ==
    (/\ TargetsMe(result)
     /\ result.args.access_token # NoneV
     /\ result.args.access_token \notin DOMAIN token_users)
        => result.exc \in SimulatorErrors

\* C10: build_signed_request(u) returns; for an installed u the payload
\* carries oauth_token, the token recorded for u, and user_id = u; for a u
\* that is not installed it carries neither field and the token maps are as
\* they were. The installed set is never changed by the call.
C10_SignedRequestFollowsInstalled ==
    [][ result'.op = "build_signed_request" =>
            /\ result'.exc = ""
            /\ UNCHANGED <<installed_users, public_data>>
            /\ IF result'.args.user_id \in installed_users
               THEN /\ {"oauth_token", "user_id"} \subseteq DOMAIN PayloadOf(result'.ret)
                    /\ result'.args.user_id \in DOMAIN user_tokens'
                    /\ PayloadOf(result'.ret).oauth_token =
                           user_tokens'[result'.args.user_id]
                    /\ PayloadOf(result'.ret).user_id = result'.args.user_id
               ELSE /\ {"oauth_token", "user_id"} \cap DOMAIN PayloadOf(result'.ret) = {}
                    /\ UNCHANGED <<user_tokens, token_users>>
      ]_vars

\* C10 witness: a signed request built for a provisioned user who holds a
\* token and is not installed.
C10_Witness ==
    /\ result.op = "build_signed_request"
    /\ result.args.user_id \notin installed_users
    /\ result.args.user_id \in DOMAIN user_tokens
    /\ \E i \in DOMAIN test_users : test_users[i].id = result.args.user_id

\* the call r failed with the error of a signature that does not verify
SignatureMismatch(r) ==
    /\ r.exc = "Error"
    /\ r.msg = <<"'signed_request' signature mismatch">>

\* the call r failed with the error of a token that is not two parts
Malformed(r) ==
    /\ r.exc = "ValueError"
    /\ r.msg = <<"'signed_request' malformed">>

\* the call r failed with the error of an algorithm that is not supported
UnknownAlgorithm(r) ==
    /\ r.exc = "Error"
    /\ r.msg = <<"'signed_request' is using an unknown algorithm">>

\* the payload part p is the text of a JSON object
IsJsonObject(p) ==
    /\ p # <<>>
    /\ "json" \in DOMAIN p[1].b64
    /\ "t" \notin DOMAIN p[1].b64.json

\* C11: parse_signed_request of build_signed_request(u, t, s), t not None,
\* with the secret s returns a payload whose user_id equals u and whose
\* oauth_token equals t; with another secret it fails with the signature
\* mismatch error.
C11_SignedRequestRoundTrip ==
    \A u \in SignedUserIds, t \in SignedTokens \ {NoneV}, s \in Secrets,
       now \in 0..MaxTime :
        (/\ result.op = "parse_signed_request"
         /\ result.args.signed_request = build_signed_request(u, t, s, now))
            => IF result.args.app_secret = s
               THEN /\ result.exc = ""
                    /\ {"user_id", "oauth_token"} \subseteq DOMAIN result.ret
                    /\ PyEq(result.ret.user_id, u)
                    /\ PyEq(result.ret.oauth_token, t)
               ELSE SignatureMismatch(result)

\* C11 witness: a built request was parsed with its secret, and the user id,
\* a str when the request was built, came back as unicode text.
C11_Witness ==
    /\ result.op = "parse_signed_request"
    /\ result.args.signed_request \in BuiltRequests
    /\ result.exc = ""
    /\ "user_id" \in DOMAIN result.ret
    /\ result.ret.user_id = UniV(create_id(0))

\* C12: a built signed request whose payload part was replaced by the text
\* of another JSON object fails to parse with the signature mismatch error.
C12_TamperedPayloadMismatch ==
    \A r \in BuiltRequests, p \in PayloadInputs :
        (/\ result.op = "parse_signed_request"
         /\ result.args.signed_request = <<r[1], Dot>> \o p
         /\ IsJsonObject(p)
         /\ p[1] # r[3])
            => SignatureMismatch(result)

\* C13: parse_signed_request fails with the malformed error whenever the
\* token, split on '.', is not exactly two parts.
C13_NotTwoPartsMalformed ==
    (/\ result.op = "parse_signed_request"
     /\ Len(Split(result.args.signed_request, Dot)) # 2)
        => Malformed(result)

\* C14: for a two-part token whose payload is a JSON object,
\* parse_signed_request fails with the unknown algorithm error when the
\* algorithm field is absent or is not 'HMAC-SHA256' in some letter case,
\* and returns the payload when it is and the signature verifies.
C14_AlgorithmCaseInsensitive ==
    (/\ result.op = "parse_signed_request"
     /\ Len(Split(result.args.signed_request, Dot)) = 2
     /\ IsJsonObject(Split(result.args.signed_request, Dot)[2]))
        => LET l == Split(result.args.signed_request, Dot)
               d == l[2][1].b64.json
               supported ==
                   /\ "algorithm" \in DOMAIN d
                   /\ d.algorithm \in {StrV(<<"HMAC-SHA256">>), StrV(<<"hmac-sha256">>),
                                       StrV(<<"Hmac-Sha256">>)}
           IN IF ~supported THEN UnknownAlgorithm(result)
              ELSE (l[1] = <<B64Encode(HmacSha256(result.args.app_secret, l[2]))>>)
                       => (result.exc = "" /\ result.ret = Loads(d))

\* the cookie of the call with arguments a carries the digest of its fields
\* under the secret of the call, and an expires field that is 0 or a time
\* after now
CookieIsValid(a) ==
    /\ a.jar = "own"
    /\ a.cookie.sig = CookieSig(a.cookie.fields, a.app_secret)
    /\ <<"expires">> \in DOMAIN a.cookie.fields
    /\ \E n \in 0..(MaxTime + 1) :
           /\ Dec(n) = a.cookie.fields[<<"expires">>]
           /\ (n = 0 \/ a.now < n)

\* C15: get_user_from_cookie returns the fields of the cookie exactly when
\* its sig is the digest of the sorted key=value text of the other fields
\* followed by the secret and expires is 0 or after now.
C15_CookieAcceptedIffValid ==
    (result.op = "get_user_from_cookie" /\ result.args.jar = "own") =>
        /\ (result.exc = "" /\ result.ret # NoneV) <=> CookieIsValid(result.args)
        /\ CookieIsValid(result.args) =>
               result.ret = DictV(AllFields(result.args.cookie))

\* C15 witness: a quoted cookie with expires=0 and the right sig was
\* accepted at the latest time.
C15_Witness ==
    /\ result.op = "get_user_from_cookie"
    /\ result.exc = ""
    /\ result.ret # NoneV
    /\ result.args.cookie.quoted
    /\ result.args.cookie.fields[<<"expires">>] = <<"0">>
    /\ result.args.now = MaxTime

\* C16: get_user_from_cookie returns None, and raises nothing, for a cookie
\* that is missing or not valid.
C16_InvalidCookieIsNone ==
    (result.op = "get_user_from_cookie" /\ ~CookieIsValid(result.args)) =>
        (result.exc = "" /\ result.ret = NoneV)

\* the key of the object the call r is made on, None when r names 'me' with
\* a token that no user holds
ResolvedKey(r) ==
    IF TargetsMe(r)
    THEN (IF r.args.access_token \in DOMAIN token_users
          THEN token_users[r.args.access_token]
          ELSE NoneV)
    ELSE StrV(Split(CallPath(r), "/")[1])

\* the call r failed with the not-found error
NotFound(r) == r.exc = "ResourceNotFoundError"

\* C17: a fetch whose object is not in the store fails with the not-found
\* error, whatever the access token, and changes nothing; a fetch of an id
\* that is in the store returns the object stored under it.
C17_FetchMissingIsNotFound ==
    [][ (result'.op = "fetch" /\ ResolvedKey(result') # NoneV) =>
            LET key == ResolvedKey(result') IN
            IF key \notin DOMAIN public_data
            THEN NotFound(result') /\ UNCHANGED gvars
            ELSE Len(Split(result'.args.id, "/")) = 1 =>
                     /\ result'.exc = ""
                     /\ result'.ret.ref = key
                     /\ result'.ret.fields = public_data[key].fields
      ]_vars

\* C17 witness: a fetch of an id that is not stored, made with the token of
\* a provisioned user, failed with the not-found error.
C17_Witness ==
    /\ result.op = "fetch"
    /\ result.args.id = <<"nosuch">>
    /\ result.args.access_token \in DOMAIN token_users
    /\ NotFound(result)
    /\ test_users # <<>>

\* the relation names declared for a node class
Declared(cls) ==
    CASE cls = "UserGraphNode" -> {<<"friends">>}
      [] cls = "ApplicationGraphNode" -> {<<"accounts">>}
      [] OTHER -> {}

\* C18: on a stored object, a read of 'id/relation' fails with the not-found
\* error exactly when the relation is not declared for the object's class,
\* and succeeds otherwise; a write whose relation is not declared fails with
\* the not-found error and changes nothing, a write whose relation is
\* declared finds the connection (it is on the object afterwards), and a
\* write to a user's friends succeeds.
C18_RelationDeclaredForKind ==
    [][ (/\ result'.op \in {"fetch", "put"}
         /\ ResolvedKey(result') \in DOMAIN public_data) =>
            LET key == ResolvedKey(result')
                cls == public_data[key].cls
                parts == Split(result'.args.id, "/")
            IN
            /\ (result'.op = "fetch" /\ Len(parts) > 1) =>
                   IF Join(Tail(parts), "/") \in Declared(cls)
                   THEN result'.exc = ""
                   ELSE NotFound(result') /\ UNCHANGED gvars
            /\ result'.op = "put" =>
                   LET name == Split(result'.args.connection_name, "/")[1] IN
                   IF name \in Declared(cls)
                   THEN /\ name \in DOMAIN public_data'[key].conns
                        /\ (name = <<"friends">> => result'.exc = "")
                   ELSE NotFound(result') /\ UNCHANGED gvars
      ]_vars

\* C18 witness: a read of 'accounts' on a user node failed with the
\* not-found error.
C18_Witness ==
    /\ result.op = "fetch"
    /\ NotFound(result)
    /\ Len(result.args.id) = 4
    /\ SubSeq(result.args.id, 3, 4) = <<"/", "accounts">>
    /\ StrV(SubSeq(result.args.id, 1, 2)) \in DOMAIN public_data

\* C19: a write to the application's accounts connection whose sub-path is
\* not 'test-users' fails with the not-found error; the ids stored, both
\* token maps and the installed set are as before the call.
C19_OtherSubPathCreatesNothing ==
    [][ (/\ result'.op = "put"
         /\ ResolvedKey(result') = StrV(app_name)
         /\ Split(result'.args.connection_name, "/")[1] = <<"accounts">>
         /\ result'.args.connection_name # <<"accounts", "/", "test-users">>) =>
            /\ NotFound(result')
            /\ DOMAIN public_data' = DOMAIN public_data
            /\ UNCHANGED <<user_tokens, token_users, installed_users>>
      ]_vars

\* C19 witness: a write to accounts/other on the application node failed,
\* on a graph that holds a provisioned user.
C19_Witness ==
    /\ result.op = "put"
    /\ result.args.parent_id = app_name
    /\ result.args.connection_name = <<"accounts", "/", "other">>
    /\ NotFound(result)
    /\ test_users # <<>>

\* a is an initial part of b
IsPrefix(a, b) == Len(a) <= Len(b) /\ SubSeq(b, 1, Len(a)) = a

\* C20: whatever call is made, a read of a user's friends connection after
\* it returns, for every access token, the entries the connection held
\* before it, in the same order, followed by the entry of the call when the
\* call is a friends write on that user.
C20_FriendsReadKeepsEntries ==
    [][ \A k \in {x \in DOMAIN public_data : public_data[x].cls = "UserGraphNode"} :
        \A t \in {NoneV, StrV(<<"bogus">>)} \cup DOMAIN token_users' :
            LET before == FriendsOf(G, k)
                read == fetch(G', t, k.s \o <<"/", "friends">>)
            IN /\ read.exc = ""
               /\ IsPrefix(before, read.ret.data)
               /\ (result'.op = "put" /\ FriendsWritten(result')
                       /\ ResolvedKey(result') = k) =>
                      Len(read.ret.data) = Len(before) + 1
      ]_vars

\* C22: a provisioning write returns; it adds the new user to the installed
\* set when the payload's installed field is true and leaves the installed
\* set as it was when it is not; in both cases the token it returns
\* resolves 'me' to the new user.
C22_InstalledOnlyOnRequest ==
    [][ result'.op = "create" =>
            /\ result'.exc = ""
            /\ installed_users' =
                   IF result'.args.installed = BoolV(TRUE)
                   THEN installed_users \cup {result'.ret.id}
                   ELSE installed_users
            /\ LET me == fetch(G', result'.ret.access_token, <<"me">>) IN
               me.exc = "" /\ me.ret.ref = result'.ret.id
      ]_vars

\* C22 witness: a second provisioning write, with installed=false, whose
\* user is not in the installed set while another user is.
C22_Witness ==
    /\ result.op = "create"
    /\ result.args.installed = BoolV(FALSE)
    /\ result.exc = ""
    /\ result.ret.id \notin installed_users
    /\ installed_users # {}
    /\ Len(test_users) = 2

\* C23: uninstall_user(u) for an installed u returns, removes u and nothing
\* else from the installed set and leaves the store and both token maps as
\* they were, so every token that resolved 'me' to u still does; no call
\* changes the token recorded for a user, and build_signed_request(u) for an
\* installed u who has a token carries that token.
C23_UninstallKeepsToken ==
    [][ /\ (/\ result'.op = "uninstall_user"
            /\ result'.args.user_id \in installed_users) =>
               /\ result'.exc = ""
               /\ installed_users' = installed_users \ {result'.args.user_id}
               /\ UNCHANGED <<public_data, user_tokens, token_users>>
               /\ \A t \in DOMAIN token_users :
                      token_users[t] = result'.args.user_id =>
                          resolve_me(G', t) = Ok(G', result'.args.user_id)
        /\ \A u \in DOMAIN user_tokens :
               u \in DOMAIN user_tokens' /\ user_tokens'[u] = user_tokens[u]
        /\ (/\ result'.op = "build_signed_request"
            /\ result'.args.user_id \in installed_users
            /\ result'.args.user_id \in DOMAIN user_tokens) =>
               /\ "oauth_token" \in DOMAIN PayloadOf(result'.ret)
               /\ PayloadOf(result'.ret).oauth_token = user_tokens[result'.args.user_id]
      ]_vars

\* C23 witness: a provisioned user who holds a token was uninstalled.
C23_Witness ==
    /\ result.op = "uninstall_user"
    /\ result.exc = ""
    /\ result.args.user_id \in DOMAIN user_tokens
    /\ result.args.user_id \notin installed_users
    /\ \E i \in DOMAIN test_users : test_users[i].id = result.args.user_id

\* C24: a friends write on user A changes the friends connection of A and
\* nothing else: the ids stored, every other object, the fields and the
\* other connections of A, both token maps and the installed set are as
\* before.
C24_FriendsWriteTouchesOnlyOwner ==
    [][ (result'.op = "put" /\ FriendsWritten(result')) =>
            LET key == ResolvedKey(result') IN
            /\ DOMAIN public_data' = DOMAIN public_data
            /\ \A k \in DOMAIN public_data \ {key} : public_data'[k] = public_data[k]
            /\ public_data'[key].cls = public_data[key].cls
            /\ public_data'[key].fields = public_data[key].fields
            /\ DOMAIN public_data'[key].conns =
                   DOMAIN public_data[key].conns \cup {<<"friends">>}
            /\ \A c \in DOMAIN public_data[key].conns \ {<<"friends">>} :
                   public_data'[key].conns[c] = public_data[key].conns[c]
            /\ UNCHANGED <<user_tokens, token_users, installed_users>>
      ]_vars

\* C24 witness: a friends write on one stored user that names another
\* stored user.
C24_Witness ==
    /\ result.op = "put"
    /\ FriendsWritten(result)
    /\ Len(result.args.connection_name) > 2
    /\ StrV(SubSeq(result.args.connection_name, 3,
                   Len(result.args.connection_name))) \in DOMAIN public_data
    /\ StrV(SubSeq(result.args.connection_name, 3,
                   Len(result.args.connection_name))) # StrV(result.args.parent_id)
    /\ StrV(result.args.parent_id) \in DOMAIN public_data

\* C26: once users were provisioned, a read of 'accounts/test-users' on the
\* application node succeeds and returns one entry for each provisioning
\* write.
C26_ProvisionedUsersListed ==
    (/\ result.op = "fetch"
     /\ result.args.id = app_name \o <<"/", "accounts", "/", "test-users">>
     /\ test_users # <<>>)
        => /\ result.exc = ""
           /\ Len(result.ret.data) = Len(test_users)

\* C21: a read of the user's friends connection that has returned holds
\* whole entries only, and among them every entry that had been appended
\* when the read began.
C21_ReadSeesEarlierEntries ==
    \A th \in Callers :
        (callers[th].op = "fetch" /\ callers[th].pc = "done") =>
            /\ \A i \in DOMAIN callers[th].ret.data :
                   DOMAIN callers[th].ret.data[i] = {"id"}
            /\ \A e \in callers[th].expected :
                   \E i \in DOMAIN callers[th].ret.data :
                       callers[th].ret.data[i] = [id |-> StrV(e)]

\* C25: a token that build_access_token has returned to a thread resolves
\* 'me' to the user it was built for.
C25_ReturnedTokenResolves ==
    \A th \in Callers :
        (callers[th].op = "build_access_token" /\ callers[th].pc = "done") =>
            resolve_me(G, callers[th].ret) = Ok(G, callers[th].arg)

====
